---- MODULE Spec2Model ----
(***************************************************************************)
(* Raster core of legend-engine (crates/legend-engine/src/engine/          *)
(* graphics.rs): Color, Palette, RleImage, Image and the free function     *)
(* blit.  Every operation of the source is a pure operator computed the    *)
(* way the code computes it; an action applies one operation to the        *)
(* current canvas / palette and records it in `call`.                      *)
(*                                                                         *)
(* Rust panics (index out of bounds, checked arithmetic overflow) are an   *)
(* outcome of the call: the record an operation returns carries a          *)
(* `panicked` flag, and the memory written before the panic is kept.       *)
(* Arithmetic overflow panics only when the build has overflow checks on   *)
(* (debug) and wraps otherwise (release); the build is an input `checked`. *)
(***************************************************************************)
EXTENDS Integers, Sequences, FiniteSets, TLC

VARIABLES pc, canvas, palette, call

vars == <<pc, canvas, palette, call>>

----------------------------------------------------------------------------
(* Bounds of the model. *)

\* longest payload among the exhaustively enumerated byte strings
MaxPayload == 4
\* canvas of the blit harness
CanvasW == 2
CanvasH == 2

\* payload byte values that are enumerated exhaustively
Bytes == {0, 1, 3}
\* palette entries the canvas may be cleared to before the blit
ClearIndexes == {1}
\* sprite widths and heights (RleImage.size)
SpriteSides == {0, 1, 2}
\* sprite draw offsets (RleImage.offset)
Offsets == { [x |-> 0, y |-> 0], [x |-> 0 - 1, y |-> 1] }

----------------------------------------------------------------------------
(* Color *)

Color_new(r, g, b, a) == [r |-> r, g |-> g, b |-> b, a |-> a]

\* one channel of alpha_blend: (self * (1.0 - alpha) + target * alpha) as u8,
\* alpha = num / den.  For den a power of two and 0 <= num <= den every f64
\* operation is exact and the cast truncates, so this is the code's value.
BlendChannel(self, target, num, den) == (self * (den - num) + target * num) \div den

alpha_blend(self, target, num, den) ==
    Color_new(BlendChannel(self.r, target.r, num, den),
              BlendChannel(self.g, target.g, num, den),
              BlendChannel(self.b, target.b, num, den),
              255)

\* alpha = target.a / 255.0; exact for target.a = 0 (alpha 0.0) and
\* target.a = 255 (alpha 1.0), the only alphas fill_rect is given here
blend(self, target) == alpha_blend(self, target, target.a, 255)

----------------------------------------------------------------------------
(* Palette: colors is a function 0..255 -> Color *)

Palette_empty == [i \in 0..255 |-> Color_new(0, 0, 0, 255)]

\* buffer.read_u8().unwrap_or(0) on a stream holding `bytes`, at position k
read_u8_or_0(bytes, k) == IF k < Len(bytes) THEN bytes[k + 1] ELSE 0

create_by_buffer(bytes) ==
    [i \in 0..255 |-> Color_new(read_u8_or_0(bytes, 3 * i),
                                read_u8_or_0(bytes, 3 * i + 1),
                                read_u8_or_0(bytes, 3 * i + 2),
                                255)]

get_color(colors, index) == colors[index]

set_color(colors, index, color) == [colors EXCEPT ![index] = color]

\* the stream 1, 2, 3, ... : entry i becomes (3i+1, 3i+2, 3i+3, 255)
RampStream == [k \in 1..24 |-> k]

\* u8 subtraction: the wrapped difference, and whether it underflowed
Sub8(a, b) == (a - b + 256) % 256

Underflows(a, b) == a < b

swap(colors, index_a, index_b) ==
    LET color_a == get_color(colors, index_a)
    IN  set_color(set_color(colors, index_a, get_color(colors, index_b)), index_b, color_a)

\* for i in 0..count { self.set_color(index - i, self.get_color(index - i - 1)); }
\* st = [colors, panicked]; with overflow checks an underflowing subtraction
\* panics, without them it wraps modulo 256
RECURSIVE AnimateLoop(_, _, _, _, _)
AnimateLoop(st, i, index, count, checked) ==
    IF i >= count \/ st.panicked THEN st
    ELSE IF checked /\ (Underflows(index, i) \/ Underflows(Sub8(index, i), 1))
         THEN [st EXCEPT !.panicked = TRUE]
         ELSE LET to == Sub8(index, i)
                  from == Sub8(to, 1)
              IN  AnimateLoop([st EXCEPT !.colors = set_color(@, to, get_color(@, from))],
                              i + 1, index, count, checked)

\* self.set_color(index - count, color)
AnimateFinishDropped(st, color, index, count, checked) == st

AnimateFinish(st, color, index, count, checked) ==
    IF st.panicked THEN st
    ELSE IF checked /\ Underflows(index, count) THEN [st EXCEPT !.panicked = TRUE]
    ELSE [st EXCEPT !.colors = set_color(@, Sub8(index, count), color)]

animate(colors, index, count, checked) ==
    LET color == get_color(colors, index)
        st == AnimateLoop([colors |-> colors, panicked |-> FALSE], 0, index, count, checked)
    IN  AnimateFinish(st, color, index, count, checked)

\* A file as Palette::new sees it: whether it opens, whether the read
\* succeeds, its length, and its bytes, byte k being (mul * k + add) % mod
FileByte(file, k) == (file.mul * k + file.add) % file.mod

\* buffer = [0; 256 * 3] after file.read(&mut buffer): the file's first bytes,
\* the rest still zero
BufferByte(file, k) == IF k < file.len /\ k < 256 * 3 THEN FileByte(file, k) ELSE 0

\* pixel[n] * 4 in u8
Mul4Overflows(b) == b * 4 > 255

Mul4(b) == (b * 4) % 256

\* the chunk width of buffer.chunks_exact_mut(..)
ChunkWidth == 4

Palette_new(file, checked) ==
    LET none == [some |-> FALSE, panicked |-> FALSE, colors |-> Palette_empty]
        chunks == (256 * 3) \div ChunkWidth
        used == { ChunkWidth * i + n : i \in 0..(chunks - 1), n \in 0..2 }
    IN  IF ~file.exists \/ ~file.readable THEN none
        ELSE IF checked /\ \E k \in used : Mul4Overflows(BufferByte(file, k))
        THEN [some |-> FALSE, panicked |-> TRUE, colors |-> Palette_empty]
        ELSE [some |-> TRUE, panicked |-> FALSE,
              colors |-> [i \in 0..255 |->
                  IF i < chunks
                  THEN Color_new(Mul4(BufferByte(file, ChunkWidth * i)),
                                 Mul4(BufferByte(file, ChunkWidth * i + 1)),
                                 Mul4(BufferByte(file, ChunkWidth * i + 2)),
                                 255)
                  ELSE Color_new(0, 0, 0, 255)]]

----------------------------------------------------------------------------
(* Image *)

Image_new(width, height) ==
    [size |-> [x |-> width, y |-> height],
     data |-> [k \in 1..(width * height) |-> Color_new(0, 0, 0, 0)]]

clear_by_color(image, color) ==
    [image EXCEPT !.data = [k \in 1..Len(image.data) |-> color]]

set_pixel(image, x, y, color) ==
    IF x < 0 \/ x >= image.size.x THEN image
    ELSE IF y < 0 \/ y >= image.size.y THEN image
    ELSE [image EXCEPT !.data[y * image.size.x + x + 1] = color]

\* the pixel alpha_blit composes: dest_color.alpha_blend(&source_color, alpha)
AlphaBlitPixelBySourceAlpha(dest_color, source_color, num, den) ==
    blend(dest_color, source_color)

AlphaBlitPixel(dest_color, source_color, num, den) ==
    alpha_blend(dest_color, source_color, num, den)

\* for i in 0..source.size.x { ... }   (lines 251-268): row j of the source
RECURSIVE AlphaBlitRow(_, _, _, _, _, _, _, _)
AlphaBlitRow(image, i, j, source, x, y, num, den) ==
    IF i >= source.size.x THEN image
    ELSE
      LET source_color == source.data[j * source.size.x + i + 1]
          next ==
            IF x + i < 0 \/ x + i >= image.size.x THEN image
            ELSE IF source_color.a = 0 THEN image
            ELSE LET dest_color == image.data[(j + y) * image.size.x + (x + i) + 1]
                 IN  set_pixel(image, i + x, j + y,
                               AlphaBlitPixel(dest_color, source_color, num, den))
      IN  IF Len(next.data) = Len(image.data)
          THEN AlphaBlitRow(next, i + 1, j, source, x, y, num, den)
          ELSE next

\* for j in 0..source.size.y { ... }   (lines 247-269)
RECURSIVE AlphaBlitLoop(_, _, _, _, _, _, _)
AlphaBlitLoop(image, j, source, x, y, num, den) ==
    IF j >= source.size.y THEN image
    ELSE
      LET next == IF y + j < 0 \/ y + j >= image.size.y THEN image
                  ELSE AlphaBlitRow(image, 0, j, source, x, y, num, den)
      IN  IF Len(next.data) = Len(image.data)
          THEN AlphaBlitLoop(next, j + 1, source, x, y, num, den)
          ELSE next

alpha_blit(image, source, x, y, num, den) ==
    AlphaBlitLoop(image, 0, source, x, y, num, den)

\* for i in 0..width { ... }   (lines 278-289): row j of the rectangle
RECURSIVE FillRectRow(_, _, _, _, _, _, _)
FillRectRow(image, i, j, x, y, width, color) ==
    IF i >= width THEN image
    ELSE
      LET next ==
            IF x + i < 0 \/ x + i >= image.size.x THEN image
            ELSE LET dest_color == image.data[(j + y) * image.size.x + (x + i) + 1]
                 IN  set_pixel(image, i + x, j + y, blend(dest_color, color))
      IN  IF Len(next.data) = Len(image.data)
          THEN FillRectRow(next, i + 1, j, x, y, width, color)
          ELSE next

\* for j in 0..height { ... }   (lines 273-290)
RECURSIVE FillRectLoop(_, _, _, _, _, _, _)
FillRectLoop(image, j, x, y, width, height, color) ==
    IF j >= height THEN image
    ELSE
      LET next == IF y + j < 0 \/ y + j >= image.size.y THEN image
                  ELSE FillRectRow(image, 0, j, x, y, width, color)
      IN  IF Len(next.data) = Len(image.data)
          THEN FillRectLoop(next, j + 1, x, y, width, height, color)
          ELSE next

fill_rect(image, x, y, width, height, color) ==
    FillRectLoop(image, 0, x, y, width, height, color)

\* A font as draw_char sees it: width, height, the length of its data, and
\* the data itself, byte k being (mult * k + 1) % 256
FontByte(font, k) == (font.mult * k + 1) % 256

\* (character & 0xff00) / 0x100  and  character & 0xff
HighByte(character) == (character \div 256) % 256

LowByte(character) == character % 256

\* the usize subtractions of the Big5 branch that go below zero:
\* page (high byte < 0xa1) and the position of a low byte < 0x40
Big5Underflows(character) ==
    \/ HighByte(character) < 161
    \/ (LowByte(character) < 161 /\ LowByte(character) < 64)

\* page * (0xfe - 0xa1 + 0x7e - 0x40 + 2) + position, as an integer
Big5CodeNoGap(character) ==
    LET page == HighByte(character) - 161
        position == IF LowByte(character) >= 161
                    THEN LowByte(character) - 161 + 126 - 64
                    ELSE LowByte(character) - 64
    IN  page * (254 - 161 + 126 - 64 + 2) + position

Big5Code(character) ==
    LET page == HighByte(character) - 161
        position == IF LowByte(character) >= 161
                    THEN LowByte(character) - 161 + 126 - 64 + 1
                    ELSE LowByte(character) - 64
    IN  page * (254 - 161 + 126 - 64 + 2) + position

\* let code = if character >= 0xa140 { ... } else { character }
GlyphCode(character) ==
    IF character >= 41280 THEN Big5Code(character) ELSE character

\* for bit in (0..8).rev() { ... }   (lines 337-343): the bits of one font
\* byte, most significant first, current_x counting the columns drawn so far
\* (set_pixel never resizes the canvas; testing it makes each step's
\* canvas a value before the loop goes on)
RECURSIVE DrawGlyphBits(_, _, _, _, _, _, _)
DrawGlyphBits(image, bit, byte, current_x, x, y_row, color) ==
    IF bit < 0 THEN image
    ELSE LET next == IF (byte \div (2 ^ bit)) % 2 = 1
                     THEN set_pixel(image, x + current_x, y_row, color)
                     ELSE image
         IN  IF Len(next.data) = Len(image.data)
             THEN DrawGlyphBits(next, bit - 1, byte, current_x + 1, x, y_row, color)
             ELSE next

\* for i in 0..(font.width / 8) { ... }   (lines 334-344): the bytes of row j
RECURSIVE DrawGlyphRow(_, _, _, _, _, _, _, _)
DrawGlyphRow(image, i, j, index, x, y, font, color) ==
    LET row_bytes == font.width \div 8
    IN  IF i >= row_bytes THEN image
        ELSE LET byte == FontByte(font, index + j * row_bytes + i)
                 next == DrawGlyphBits(image, 7, byte, 8 * i, x, y + j, color)
             IN  IF Len(next.data) = Len(image.data)
                 THEN DrawGlyphRow(next, i + 1, j, index, x, y, font, color)
                 ELSE next

\* for j in 0..font.height { ... }   (lines 332-345): the rows of the glyph
RECURSIVE DrawGlyph(_, _, _, _, _, _, _)
DrawGlyph(image, j, index, x, y, font, color) ==
    IF j >= font.height THEN image
    ELSE LET next == DrawGlyphRow(image, 0, j, index, x, y, font, color)
         IN  IF Len(next.data) = Len(image.data)
             THEN DrawGlyph(next, j + 1, index, x, y, font, color)
             ELSE next

\* draw_char.  `code` is the glyph index as an integer; without overflow
\* checks a negative one stands for its wrap modulo 2^64: index and
\* index + character_bytes then wrap too, the bounds test turns the call into
\* a return except for code = -1, where index + character_bytes wraps to 0,
\* passes the test, and the first font.data read is out of bounds.
draw_char(image, character, x, y, font, color, checked) ==
    LET character_bytes == (font.width \div 8) * font.height
        code == GlyphCode(character)
        index == character_bytes * code
        out(img, panicked, drawn) ==
            [image |-> img, panicked |-> panicked, drawn |-> drawn, code |-> code]
    IN  IF character >= 41280 /\ checked /\ Big5Underflows(character)
        THEN out(image, TRUE, FALSE)
        ELSE IF code < 0
        THEN out(image, code = 0 - 1 /\ character_bytes > 0, FALSE)
        ELSE IF index + character_bytes > font.len
        THEN out(image, FALSE, FALSE)
        ELSE out(DrawGlyph(image, 0, index, x, y, font, color), FALSE, TRUE)

\* draw_text: st = [image, panicked, count, line, calls], calls being the
\* draw_char calls made, in order
RECURSIVE DrawTextLoop(_, _, _, _, _, _, _, _)
DrawTextLoop(st, n, text, x, y, font, color, checked) ==
    IF n > Len(text) \/ st.panicked THEN st
    ELSE
      LET character == text[n]
          line == IF character = 13 THEN st.line + 1 ELSE st.line
          count == IF character = 13 THEN 0 ELSE st.count
          cx == x + count * font.width
          cy == y + line * font.height
          r == draw_char(st.image, character, cx, cy, font, color, checked)
      IN  DrawTextLoop([image |-> r.image, panicked |-> r.panicked,
                        count |-> count + 1, line |-> line,
                        calls |-> Append(st.calls,
                                    [character |-> character, x |-> cx, y |-> cy])],
                       n + 1, text, x, y, font, color, checked)

draw_text(image, text, x, y, font, color, checked) ==
    DrawTextLoop([image |-> image, panicked |-> FALSE, count |-> 0, line |-> 0,
                  calls |-> <<>>],
                 1, text, x, y, font, color, checked)

----------------------------------------------------------------------------
(* blit (the free function) *)

\* the early returns before the decode loop
BlitRejectedStrict(width, height, source, x, y) ==
    LET start_x == x + source.offset.x
        start_y == y + source.offset.y
    IN  \/ start_x >= width
        \/ start_x + source.size.x < 0
        \/ start_y >= height
        \/ start_y + source.size.y < 0

BlitRejected(width, height, source, x, y) ==
    LET start_x == x + source.offset.x
        start_y == y + source.offset.y
    IN  \/ start_x >= width
        \/ start_x + source.size.x <= 0
        \/ start_y >= height
        \/ start_y + source.size.y <= 0

\* source.data[index]: a read below the length, a panic otherwise.
\* st.reads counts the payload reads, st.maxread is the highest index asked for.
RleInRange(source, index) == index < Len(source.data)

RleByte(source, index) == source.data[index + 1]

NoteRead(st, index) ==
    [st EXCEPT !.reads = @ + 1,
               !.maxread = IF index > @ THEN index ELSE @]

Panic(st) == [st EXCEPT !.panicked = TRUE]

\* for _ in 0..data_length { ... }   (lines 226-235), n iterations left
RECURSIVE BlitRun(_, _, _, _, _, _, _)
BlitRun(st, n, current_y, width, height, source, colors) ==
    IF n <= 0 \/ st.panicked THEN st
    ELSE
      LET cx == st.current_x
          inside == cx >= 0 /\ cx < width /\ current_y >= 0 /\ current_y < height
          st1 == IF ~inside THEN st
                 ELSE IF ~RleInRange(source, st.index)
                      THEN Panic(NoteRead(st, st.index))
                      ELSE [NoteRead(st, st.index) EXCEPT
                              !.target[current_y * width + cx + 1] =
                                  get_color(colors, RleByte(source, st.index)),
                              !.wrote = @ \cup {<<cx, current_y>>}]
      IN  IF st1.panicked THEN st1
          ELSE BlitRun([st1 EXCEPT !.index = @ + 1, !.current_x = @ + 1],
                       n - 1, current_y, width, height, source, colors)

\* while index - line_start_index < line_length { ... }   (lines 215-236)
RECURSIVE BlitBlocks(_, _, _, _, _, _, _, _)
BlitBlocks(st, line_start_index, line_length, current_y, width, height, source, colors) ==
    IF st.panicked \/ ~(st.index - line_start_index < line_length) THEN st
    ELSE IF ~RleInRange(source, st.index) THEN Panic(NoteRead(st, st.index))
    ELSE
      LET st1 == [NoteRead(st, st.index) EXCEPT
                    !.current_x = @ + RleByte(source, st.index),
                    !.index = @ + 1]
      IN  IF st1.index - line_start_index >= line_length THEN st1
          ELSE IF ~RleInRange(source, st1.index) THEN Panic(NoteRead(st1, st1.index))
          ELSE
            LET data_length == RleByte(source, st1.index)
                st2 == [NoteRead(st1, st1.index) EXCEPT !.index = @ + 1]
                st3 == BlitRun(st2, data_length, current_y, width, height, source, colors)
            IN  BlitBlocks(st3, line_start_index, line_length, current_y,
                           width, height, source, colors)

\* for j in 0..source.size.y { ... }   (lines 208-237)
RECURSIVE BlitLines(_, _, _, _, _, _, _, _)
BlitLines(st, j, start_x, start_y, width, height, source, colors) ==
    IF j >= source.size.y \/ st.panicked THEN st
    ELSE IF ~RleInRange(source, st.index) THEN Panic(NoteRead(st, st.index))
    ELSE
      LET line_start_index == st.index
          line_length == RleByte(source, st.index)
          st1 == [NoteRead(st, st.index) EXCEPT
                    !.index = @ + 1,
                    !.current_x = start_x,
                    !.lines = Append(@, line_start_index)]
          st2 == BlitBlocks(st1, line_start_index, line_length, start_y + j,
                            width, height, source, colors)
      IN  BlitLines(st2, j + 1, start_x, start_y, width, height, source, colors)

\* blit(target, width, height, source, x, y, value_function) with the closure
\* Image::blit passes: |rle_image, index| palette.get_color(rle_image.data[index])
blit(target, width, height, source, x, y, colors) ==
    LET st0 == [target |-> target, index |-> 0, current_x |-> 0,
                panicked |-> FALSE, reads |-> 0, maxread |-> 0 - 1,
                lines |-> <<>>, wrote |-> {}]
    IN  IF BlitRejected(width, height, source, x, y) THEN st0
        ELSE BlitLines(st0, 0, x + source.offset.x, y + source.offset.y,
                       width, height, source, colors)

Image_blit(image, source, x, y, colors) ==
    blit(image.data, image.size.x, image.size.y, source, x, y, colors)

----------------------------------------------------------------------------
(* Inputs of the blit harness *)

RECURSIVE SeqsUpTo(_, _)
SeqsUpTo(S, n) ==
    IF n = 0 THEN { <<>> }
    ELSE LET shorter == SeqsUpTo(S, n - 1)
         IN  shorter \cup { Append(s, b) : s \in { t \in shorter : Len(t) = n - 1 }, b \in S }

\* hand-written payloads in the skip/run format
SamplePayloads ==
    { <<1, 0, 3, 0, 1, 2>>,      \* a lone skip, then a line with one pixel
      <<1, 1, 3, 0, 1, 1>>,
      <<3, 0, 1, 2>>,            \* one line, one pixel
      <<4, 1, 1, 2>>,            \* same line, length byte counting itself
      <<4, 0, 1, 2, 1, 0>>,      \* a run, then a trailing skip, then an empty line
      <<3, 0, 1, 2, 3, 1, 1, 1>> }

Payloads == SeqsUpTo(Bytes, MaxPayload) \cup SamplePayloads

Sprites ==
    { [size |-> [x |-> w, y |-> h], offset |-> o, data |-> d] :
        w \in SpriteSides, h \in SpriteSides, o \in Offsets, d \in Payloads }

XRange == (0 - 2)..CanvasW
YRange == (0 - 2)..CanvasH

----------------------------------------------------------------------------
(* The blit harness: a canvas is created, optionally cleared to a palette  *)
(* colour, and one sprite is blitted onto it.                              *)

InitBlit ==
    /\ pc = "ready"
    /\ canvas = Image_new(CanvasW, CanvasH)
    /\ palette = create_by_buffer(RampStream)
    /\ call = [op |-> "new"]

DoClearByColor ==
    /\ pc = "ready"
    /\ call.op = "new"
    /\ \E b \in ClearIndexes :
         /\ canvas' = clear_by_color(canvas, get_color(palette, b))
         /\ call' = [op |-> "clear_by_color", index |-> b]
    /\ UNCHANGED <<pc, palette>>

DoBlit ==
    /\ pc = "ready"
    /\ \E source \in Sprites, x \in XRange, y \in YRange :
         LET r == Image_blit(canvas, source, x, y, palette)
         IN  /\ canvas' = [canvas EXCEPT !.data = r.target]
             /\ call' = [op |-> "blit", source |-> source, x |-> x, y |-> y,
                         pre |-> canvas, panicked |-> r.panicked,
                         reads |-> r.reads, maxread |-> r.maxread,
                         lines |-> r.lines, wrote |-> r.wrote,
                         index |-> r.index]
    /\ pc' = "done"
    /\ UNCHANGED palette

NextBlit == DoClearByColor \/ DoBlit

SpecBlit == InitBlit /\ [][NextBlit]_vars

----------------------------------------------------------------------------
(* The skip/run format as the specification words it (section 4.3): a      *)
(* scanline is a length byte L followed by exactly L bytes, which are      *)
(* (skip, run_length, run bytes) blocks, the last of which may be a lone   *)
(* skip.  FormatDecode reads `h` scanlines of `data` in that format.       *)

\* the blocks of one scanline, from position p up to `stop`, cursor at column c
RECURSIVE FormatBlocks(_, _, _, _, _)
FormatBlocks(data, p, stop, c, j) ==
    IF p = stop THEN [ok |-> TRUE, writes |-> {}, cursor |-> c]
    ELSE IF p + 1 = stop THEN [ok |-> TRUE, writes |-> {}, cursor |-> c + data[p + 1]]
    ELSE
      LET skip == data[p + 1]
          run == data[p + 2]
          first == p + 2
      IN  IF first + run > stop THEN [ok |-> FALSE, writes |-> {}, cursor |-> c]
          ELSE LET rest == FormatBlocks(data, first + run, stop, c + skip + run, j)
               IN  [ok |-> rest.ok,
                    writes |-> rest.writes \cup
                        { <<c + skip + k, j, data[first + k + 1]>> : k \in 0..(run - 1) },
                    cursor |-> rest.cursor]

RECURSIVE FormatLines(_, _, _, _)
FormatLines(data, p, j, h) ==
    IF j = h THEN [ok |-> TRUE, writes |-> {}, starts |-> <<>>, stop |-> p, cursor |-> 0]
    ELSE IF p >= Len(data) THEN [ok |-> FALSE, writes |-> {}, starts |-> <<>>, stop |-> p, cursor |-> 0]
    ELSE
      LET L == data[p + 1]
          stop == p + 1 + L
      IN  IF stop > Len(data)
          THEN [ok |-> FALSE, writes |-> {}, starts |-> <<>>, stop |-> p, cursor |-> 0]
          ELSE LET line == FormatBlocks(data, p + 1, stop, 0, j)
                   rest == FormatLines(data, stop, j + 1, h)
               IN  [ok |-> line.ok /\ rest.ok,
                    writes |-> line.writes \cup rest.writes,
                    starts |-> <<p>> \o rest.starts,
                    stop |-> rest.stop,
                    cursor |-> IF line.cursor > rest.cursor THEN line.cursor ELSE rest.cursor]

FormatDecode(source) == FormatLines(source.data, 0, 0, source.size.y)

\* the payload is exactly size.y scanlines of the format, none wider than the sprite
WellFormed(source) ==
    LET d == FormatDecode(source)
    IN  d.ok /\ d.stop = Len(source.data) /\ d.cursor <= source.size.x

StartX == call.x + call.source.offset.x
StartY == call.y + call.source.offset.y

\* the translated bounding box meets the canvas
Intersects ==
    /\ StartX < call.pre.size.x /\ StartX + call.source.size.x > 0
    /\ StartY < call.pre.size.y /\ StartY + call.source.size.y > 0

\* the box lies entirely beside the canvas on one axis
OutsideOnAnAxis ==
    \/ StartX >= call.pre.size.x \/ StartX + call.source.size.x <= 0
    \/ StartY >= call.pre.size.y \/ StartY + call.source.size.y <= 0

\* the canvas the format's reading of the payload asks for
ExpectedCanvas ==
    LET W == call.pre.size.x
        H == call.pre.size.y
        writes == FormatDecode(call.source).writes
        hits(px, py) == { w \in writes : StartX + w[1] = px /\ StartY + w[2] = py }
    IN  [k \in 1..(W * H) |->
            LET px == (k - 1) % W
                py == (k - 1) \div W
            IN  IF hits(px, py) = {} THEN call.pre.data[k]
                ELSE get_color(palette, (CHOOSE w \in hits(px, py) : TRUE)[3])]

----------------------------------------------------------------------------
(* Claims about blit *)

\* C1: for a sprite whose payload is well formed in the skip/run format and
\* whose bounding box meets the canvas, blit completes and leaves exactly the
\* pixels the format addresses set to their palette colours, every other pixel
\* unchanged.
C1_BlitDecodesFormat ==
    (call.op = "blit" /\ Intersects /\ WellFormed(call.source))
        => (~call.panicked /\ canvas.data = ExpectedCanvas)

\* C2: line_length does not count the length byte: for a well-formed payload
\* the decoder reads one length byte per scanline, each at the previous
\* length byte's position + 1 + line_length, and ends having consumed the
\* last scanline's line_length bytes (a trailing lone skip included).
C2_LineLengthExcludesLengthByte ==
    (call.op = "blit" /\ Intersects /\ WellFormed(call.source))
        => /\ ~call.panicked
           /\ Len(call.lines) = call.source.size.y
           /\ \A k \in 1..(Len(call.lines) - 1) :
                call.lines[k + 1] = call.lines[k] + 1 + call.source.data[call.lines[k] + 1]
           /\ call.index = Len(call.source.data)

\* C3: a sprite whose translated bounding box lies entirely outside the canvas
\* on an axis is a no-op: no payload byte is read, nothing fails, and the
\* canvas is unchanged.
C3_BlitRejection ==
    (call.op = "blit" /\ OutsideOnAnAxis)
        => (~call.panicked /\ call.reads = 0 /\ canvas = call.pre)

\* C3 witness: a rejected sprite with an empty payload and a non-zero height,
\* which the decode loop could not have read
C3_Witness ==
    /\ call.op = "blit" /\ OutsideOnAnAxis
    /\ call.source.size.y > 0 /\ call.source.size.x > 0
    /\ Len(call.source.data) = 0
    /\ StartX + call.source.size.x = 0
    /\ StartY >= 0 /\ StartY < call.pre.size.y

\* C10: blit raises no error whatever the payload: for a sprite whose bounding
\* box meets the canvas every payload read is below the payload length, the
\* call completes, and only canvas pixels are written.
C10_BlitNeverFails ==
    (call.op = "blit" /\ Intersects)
        => /\ ~call.panicked
           /\ call.maxread < Len(call.source.data)
           /\ \A w \in call.wrote :
                w[1] \in 0..(call.pre.size.x - 1) /\ w[2] \in 0..(call.pre.size.y - 1)

----------------------------------------------------------------------------
(* The palette-animation harness: a palette is read from a stream, entries *)
(* may be swapped, and one animate call is made.                           *)

\* largest count passed to animate
MaxCount == 5

\* the streams the palette is built from: byte k is (mult * k) % 256
StreamMults == {1, 7}

Stream(mult) == [k \in 1..(256 * 3) |-> (mult * (k - 1)) % 256]

SwapIndexes == {0, 1, 255}

InitAnimate ==
    /\ pc = "ready"
    /\ canvas = Image_new(0, 0)
    /\ \E m \in StreamMults : palette = create_by_buffer(Stream(m))
    /\ call = [op |-> "create_by_buffer"]

DoSwap ==
    /\ pc = "ready"
    /\ call.op = "create_by_buffer"
    /\ \E a \in SwapIndexes, b \in SwapIndexes :
         /\ a < b
         /\ palette' = swap(palette, a, b)
         /\ call' = [op |-> "swap", index_a |-> a, index_b |-> b]
    /\ UNCHANGED <<pc, canvas>>

DoAnimate ==
    /\ pc = "ready"
    /\ \E index \in 0..255, count \in 0..MaxCount, checked \in BOOLEAN :
         LET r == animate(palette, index, count, checked)
         IN  /\ palette' = r.colors
             /\ call' = [op |-> "animate", index |-> index, count |-> count,
                         checked |-> checked, pre |-> palette,
                         panicked |-> r.panicked]
    /\ pc' = "done"
    /\ UNCHANGED canvas

NextAnimate == DoSwap \/ DoAnimate

SpecAnimate == InitAnimate /\ [][NextAnimate]_vars

\* C4: when index - count >= 0, animate(index, count) rotates the band
\* [index - count, index] by one slot: the entry at index moves to
\* index - count, every other entry of the band moves up by one, and every
\* entry outside the band is unchanged.
C4_AnimateRotatesBand ==
    (call.op = "animate" /\ call.index - call.count >= 0)
        => /\ ~call.panicked
           /\ palette[call.index - call.count] = call.pre[call.index]
           /\ \A k \in (call.index - call.count + 1)..call.index :
                palette[k] = call.pre[k - 1]
           /\ \A k \in 0..255 :
                (k < call.index - call.count \/ k > call.index) => palette[k] = call.pre[k]

\* C4 witness: a band of at least three entries was rotated
C4_Witness ==
    /\ call.op = "animate" /\ call.count >= 2 /\ call.index >= call.count
    /\ palette # call.pre
    /\ palette[call.index - call.count] = call.pre[call.index]

\* C12: for index < count, animate is stopped by a bounds check: the call
\* does not fail, and no palette entry at a wrapped-around index (an index
\* above `index`) is written.
C12_AnimateGuardsIndex ==
    (call.op = "animate" /\ call.index < call.count)
        => /\ ~call.panicked
           /\ \A k \in (call.index + 1)..255 : palette[k] = call.pre[k]


----------------------------------------------------------------------------
(* The palette-loading harness: Palette::new on one file.                  *)

FileLengths == {0, 1, 3, 4, 256 * 3 - 1, 256 * 3, 256 * 3 + 1}

Files ==
    { [exists |-> e, readable |-> r, len |-> n, mul |-> m, add |-> a, mod |-> d] :
        e \in BOOLEAN, r \in BOOLEAN, n \in FileLengths,
        m \in {0, 1, 5}, a \in {0, 1, 63}, d \in {64, 256} }

InitPaletteNew ==
    /\ pc = "ready"
    /\ canvas = Image_new(0, 0)
    /\ palette = Palette_empty
    /\ call = [op |-> "empty"]

DoPaletteNew ==
    /\ pc = "ready"
    /\ \E file \in Files, checked \in BOOLEAN :
         LET r == Palette_new(file, checked)
         IN  /\ palette' = IF r.some THEN r.colors ELSE palette
             /\ call' = [op |-> "Palette_new", file |-> file, checked |-> checked,
                         some |-> r.some, panicked |-> r.panicked]
    /\ pc' = "done"
    /\ UNCHANGED canvas

NextPaletteNew == DoPaletteNew

SpecPaletteNew == InitPaletteNew /\ [][NextPaletteNew]_vars

\* the file opens, reads, and holds at least the 768 bytes of a palette
Supplies768 == call.file.exists /\ call.file.readable /\ call.file.len >= 256 * 3

\* C6: a palette built from a raw 768-byte source of 6-bit values takes the
\* bytes as 256 consecutive (r, g, b) triplets: entry i is
\* (4 * byte[3i], 4 * byte[3i+1], 4 * byte[3i+2], 255).
C6_PaletteFromTriplets ==
    (call.op = "Palette_new" /\ Supplies768 /\ call.file.mod = 64)
        => /\ call.some
           /\ \A i \in 0..255 :
                palette[i] = Color_new(4 * FileByte(call.file, 3 * i),
                                       4 * FileByte(call.file, 3 * i + 1),
                                       4 * FileByte(call.file, 3 * i + 2),
                                       255)

\* C7: Palette::new fails softly: it never panics, returns no palette when the
\* source is unreadable or holds fewer than 768 bytes, and returns a palette
\* only when all 768 bytes were supplied.
C7_PaletteNewFailsSoftly ==
    (call.op = "Palette_new")
        => /\ ~call.panicked
           /\ call.some <=> Supplies768

----------------------------------------------------------------------------
(* The compositing harness: a canvas is created, a rectangle may be filled,*)
(* and one source image is alpha-blitted onto it.                          *)

\* side of the destination canvas
AlphaCanvas == 4
\* largest side of a source image
MaxSource == 2

Red == Color_new(255, 0, 0, 255)
Blue == Color_new(0, 0, 255, 255)
Green128 == Color_new(0, 255, 0, 128)
Grey1 == Color_new(90, 90, 90, 1)
Clear == Color_new(0, 0, 0, 0)
\* a colour fill_rect does not mix in (alpha 0)
Ghost == Color_new(9, 9, 9, 0)

FillColors == {Red, Blue, Ghost}

\* caller-supplied alphas, as num / den with den a power of two
Alphas == { <<0, 1>>, <<1, 4>>, <<1, 2>>, <<1, 1>> }

\* source images: every pixel Green128, every pixel transparent, or a
\* checkerboard of Grey1 and transparent pixels
SourcePatterns == {"solid", "clear", "checker"}

SourceImage(w, h, pattern) ==
    [size |-> [x |-> w, y |-> h],
     data |-> [k \in 1..(w * h) |->
                 LET i == (k - 1) % w
                     j == (k - 1) \div w
                 IN  IF pattern = "solid" THEN Green128
                     ELSE IF pattern = "clear" THEN Clear
                     ELSE IF (i + j) % 2 = 0 THEN Grey1 ELSE Clear]]

SourceImages ==
    { SourceImage(w, h, p) : w \in 1..MaxSource, h \in 1..MaxSource, p \in SourcePatterns }

InitAlpha ==
    /\ pc = "new"
    /\ canvas = Image_new(AlphaCanvas, AlphaCanvas)
    /\ palette = Palette_empty
    /\ call = [op |-> "new"]

DoFillRect ==
    /\ pc = "new"
    /\ \E x \in {0 - 1, 0, 1}, y \in {0, 1}, width \in {2, AlphaCanvas},
          height \in {1, AlphaCanvas}, color \in FillColors :
         /\ canvas' = fill_rect(canvas, x, y, width, height, color)
         /\ call' = [op |-> "fill_rect", x |-> x, y |-> y, width |-> width,
                     height |-> height, color |-> color, pre |-> canvas]
    /\ pc' = "filled"
    /\ UNCHANGED palette

DoAlphaBlit ==
    /\ pc \in {"new", "filled"}
    /\ \E source \in SourceImages, x \in (0 - 1)..(AlphaCanvas - 1),
          y \in (0 - 1)..(AlphaCanvas - 1), alpha \in Alphas :
         /\ canvas' = alpha_blit(canvas, source, x, y, alpha[1], alpha[2])
         /\ call' = [op |-> "alpha_blit", source |-> source, x |-> x, y |-> y,
                     num |-> alpha[1], den |-> alpha[2], pre |-> canvas]
    /\ pc' = "done"
    /\ UNCHANGED palette

NextAlpha == DoFillRect \/ DoAlphaBlit

SpecAlpha == InitAlpha /\ [][NextAlpha]_vars

Pixel(image, px, py) == image.data[py * image.size.x + px + 1]

\* the canvas of the end-to-end instance: 4x4, fill_rect(0, 0, 4, 4, red)
RedCanvas ==
    [size |-> [x |-> 4, y |-> 4], data |-> [k \in 1..16 |-> Red]]

IsInstance ==
    /\ call.op = "alpha_blit"
    /\ call.pre = RedCanvas
    /\ call.source = [size |-> [x |-> 2, y |-> 2], data |-> [k \in 1..4 |-> Green128]]
    /\ call.x = 1 /\ call.y = 1
    /\ call.num = 1 /\ call.den = 1

\* C5: after alpha_blit(source, x, y, alpha) every destination pixel covered
\* by a source pixel of alpha 0 is unchanged, every destination pixel covered
\* by another source pixel is the old pixel alpha_blend-ed with the source
\* pixel at the caller's alpha (so its alpha is 255), and every uncovered
\* pixel is unchanged; in the 4x4 instance the 2x2 centre becomes
\* (0, 255, 0, 255) and the border stays (255, 0, 0, 255).
C5_AlphaBlit ==
    (call.op = "alpha_blit")
        => /\ canvas.size = call.pre.size
           /\ Len(canvas.data) = Len(call.pre.data)
           /\ \A px \in 0..(canvas.size.x - 1), py \in 0..(canvas.size.y - 1) :
                LET i == px - call.x
                    j == py - call.y
                    covered == /\ i >= 0 /\ i < call.source.size.x
                               /\ j >= 0 /\ j < call.source.size.y
                    old == Pixel(call.pre, px, py)
                    new == Pixel(canvas, px, py)
                IN  IF ~covered THEN new = old
                    ELSE LET src == Pixel(call.source, i, j)
                         IN  IF src.a = 0 THEN new = old
                             ELSE /\ new.r = (old.r * (call.den - call.num) + src.r * call.num) \div call.den
                                  /\ new.g = (old.g * (call.den - call.num) + src.g * call.num) \div call.den
                                  /\ new.b = (old.b * (call.den - call.num) + src.b * call.num) \div call.den
                                  /\ new.a = 255
           /\ IsInstance =>
                \A px \in 0..3, py \in 0..3 :
                    Pixel(canvas, px, py) =
                        IF px \in {1, 2} /\ py \in {1, 2}
                        THEN Color_new(0, 255, 0, 255)
                        ELSE Color_new(255, 0, 0, 255)

\* C5 witness: the end-to-end instance was run and its centre is green
C5_Witness ==
    /\ IsInstance
    /\ Pixel(canvas, 1, 1) = Color_new(0, 255, 0, 255)
    /\ Pixel(canvas, 0, 0) = Color_new(255, 0, 0, 255)

----------------------------------------------------------------------------
(* The text harness: a canvas is created and one draw_char or draw_text    *)
(* call is made on it.                                                     *)

\* canvas of the text harness
TextW == 18
TextH == 5
\* glyph height of the fonts
FontHeight == 2
\* longest text
MaxText == 3

White == Color_new(255, 255, 255, 255)

\* fonts: widths 8 and 16 as GameFont builds them, 12 as a width that is no
\* multiple of 8; data for 160 glyphs of 8 columns, 40 glyphs, or none
Fonts ==
    { [width |-> w, height |-> FontHeight, len |-> n * FontHeight, mult |-> 37] :
        w \in {8, 12, 16}, n \in {0, 40, 160} }

\* 0x41, 0x42, CR, 0xA13F, 0xA140, 0xA17E, 0xA1A1, 0xA1FE, 0xA200, 0xA240,
\* 0xA2A1, 0xFFFF, 0x1A0FE
Characters ==
    {0, 13, 65, 66, 41279, 41280, 41342, 41377, 41470, 41472, 41536, 41633,
     65535, 106750}

TextCharacters == {13, 65, 41280}

Positions == { <<0, 0>>, <<0 - 3, 1>>, <<5, 0 - 1>>, <<TextW - 4, TextH - 1>> }

InitText ==
    /\ pc = "new"
    /\ canvas = Image_new(TextW, TextH)
    /\ palette = Palette_empty
    /\ call = [op |-> "new"]

DoDrawChar ==
    /\ pc = "new"
    /\ \E character \in Characters, p \in Positions, font \in Fonts, checked \in BOOLEAN :
         LET r == draw_char(canvas, character, p[1], p[2], font, White, checked)
         IN  /\ canvas' = r.image
             /\ call' = [op |-> "draw_char", character |-> character,
                         x |-> p[1], y |-> p[2], font |-> font, checked |-> checked,
                         pre |-> canvas, panicked |-> r.panicked,
                         drawn |-> r.drawn, code |-> r.code]
    /\ pc' = "done"
    /\ UNCHANGED palette

DoDrawText ==
    /\ pc = "new"
    /\ \E text \in SeqsUpTo(TextCharacters, MaxText), p \in Positions, font \in Fonts,
          checked \in BOOLEAN :
         LET r == draw_text(canvas, text, p[1], p[2], font, White, checked)
         IN  /\ canvas' = r.image
             /\ call' = [op |-> "draw_text", text |-> text,
                         x |-> p[1], y |-> p[2], font |-> font, checked |-> checked,
                         pre |-> canvas, panicked |-> r.panicked, calls |-> r.calls]
    /\ pc' = "done"
    /\ UNCHANGED palette

NextText == DoDrawChar \/ DoDrawText

SpecText == InitText /\ [][NextText]_vars

\* the glyph index the last draw_char call computed
CodeOf(character) == call.op = "draw_char" /\ call.character = character /\ ~call.panicked

\* C8 as stated: 0xA140 -> 0, 0xA1A1 -> one more than 0xA140's index,
\* 0xA1FE -> 0xFE - 0xA1 = 93, and a codepoint below 0xA140 -> itself.
C8_Big5RemapAsStated ==
    /\ CodeOf(41280) => call.code = 0
    /\ CodeOf(41377) => call.code = 0 + 1
    /\ CodeOf(41470) => call.code = 93
    /\ (call.op = "draw_char" /\ call.character < 41280 /\ ~call.panicked)
          => call.code = call.character

\* C8 amended: 0xA140 -> 0, 0xA17E -> 62, 0xA1A1 -> 63 (one more than
\* 0xA17E's index, the low bytes 0x7F..0xA0 being skipped), 0xA1FE -> 156,
\* and a codepoint below 0xA140 -> itself.
C8_Big5Remap ==
    /\ CodeOf(41280) => call.code = 0
    /\ CodeOf(41342) => call.code = 62
    /\ CodeOf(41377) => call.code = 63
    /\ CodeOf(41470) => call.code = 156
    /\ (call.op = "draw_char" /\ call.character < 41280 /\ ~call.panicked)
          => call.code = call.character

\* C8 witness: 0xA1FE was drawn as glyph 156
C8_Witness ==
    /\ CodeOf(41470) /\ call.code = 156 /\ call.drawn
    /\ canvas # call.pre

\* position of the most recent codepoint 13 before position n of the text (0: none)
RECURSIVE LastBreak(_, _)
LastBreak(text, n) ==
    IF n <= 1 THEN 0
    ELSE IF text[n - 1] = 13 THEN n - 1 ELSE LastBreak(text, n - 1)

Breaks(text, n) == Cardinality({ m \in 1..(n - 1) : text[m] = 13 })

\* C9: draw_text draws the k-th codepoint (k = 0, 1, ...) after the most
\* recent codepoint 13 at x + k * font.width, and every codepoint at
\* y + (number of codepoints 13 before it) * font.height.
C9_DrawTextLineBreak ==
    (call.op = "draw_text" /\ ~call.panicked)
        => /\ Len(call.calls) = Len(call.text)
           /\ \A n \in 1..Len(call.text) :
                call.text[n] # 13 =>
                    /\ call.calls[n].character = call.text[n]
                    /\ call.calls[n].x =
                          call.x + (n - LastBreak(call.text, n) - 1) * call.font.width
                    /\ call.calls[n].y =
                          call.y + Breaks(call.text, n) * call.font.height

\* C11: draw_char never fails: no call panics, a call that did not render
\* the glyph leaves the canvas unchanged, and a Big5 codepoint whose
\* glyph-index subtractions would go below zero is a silent no-op.
C11_DrawCharNeverFails ==
    call.op = "draw_char"
        => /\ ~call.panicked
           /\ ~call.drawn => canvas = call.pre
           /\ (call.character >= 41280 /\ Big5Underflows(call.character))
                 => (~call.drawn /\ canvas = call.pre)

====
